---- MODULE Spec2Model ----
(***************************************************************************)
(* Model of binance_mcp_server.py: the line-delimited JSON-RPC loop        *)
(* (StdioMCPServer) and the signed-request construction (BinanceClient).   *)
(*                                                                         *)
(* Python values are tagged records [t |-> type, v |-> payload]; None is   *)
(* Null.  A dict that the code only reads with .get() is a function over   *)
(* its keys in which an absent key and a null value both read as Null.     *)
(* An ordered dict that the code builds is a sequence of <<key, value>>.   *)
(* An encoded query string k1=v1&k2=v2 is the sequence of its <<k, v>>     *)
(* tokens.  A raised exception is a record carrying exc.args[0].           *)
(***************************************************************************)
EXTENDS Integers, Sequences, FiniteSets, TLC

\* ------------------------------------------------------------------ bounds
MaxLines == 2      \* lines read from standard input in one run
MaxClock == 1      \* clock ticks (milliseconds) observed in one run

\* --------------------------------------------------------- program constants
ParseErrorCode == 0 - 32700
DispatchErrorCode == 0 - 32000
DefaultBaseUrl == "https://api.binance.com"

\* ------------------------------------------------------------ Python values
Null == [t |-> "null", v |-> ""]
Str(s) == [t |-> "str", v |-> s]
Num(n) == [t |-> "int", v |-> n]
Bool(b) == [t |-> "bool", v |-> b]
Dict(d) == [t |-> "dict", v |-> d]

\* Python truth value of a JSON scalar
Truthy(x) ==
  CASE x.t = "null" -> FALSE
    [] x.t = "bool" -> x.v
    [] x.t = "int"  -> x.v # 0
    [] x.t = "str"  -> x.v # ""
    [] OTHER        -> TRUE

\* Python `a or b`
PyOr(a, b) == IF Truthy(a) THEN a ELSE b

\* str(x) as urlencode applies it to a parameter value
PyStr(x) ==
  CASE x.t = "bool" -> (IF x.v THEN "True" ELSE "False")
    [] x.t = "int"  -> ToString(x.v)
    [] x.t = "str"  -> x.v
    [] OTHER        -> "None"

\* str.upper() on the strings the inputs use
Upper(s) ==
  CASE s = "btcusdt" -> "BTCUSDT"
    [] s = "buy"     -> "BUY"
    [] s = "limit"   -> "LIMIT"
    [] OTHER         -> s

\* str.rstrip("/") on the base URLs the inputs use
RStripSlash(s) ==
  CASE s = "https://testnet.binance.vision/" -> "https://testnet.binance.vision"
    [] OTHER -> s

\* exceptions: exc.args[0]
NoExc == [raised |-> FALSE, arg |-> Null]
Exc(a) == [raised |-> TRUE, arg |-> a]

VARIABLES
  environ,     \* os.environ: BINANCE_API_KEY / BINANCE_API_SECRET, read-only
  now,         \* int(time.time() * 1000), the wall clock in milliseconds
  pc,          \* position of serve(): "read" at the top of the for loop, "http"
               \* inside urlopen, "next" at the end of the loop body, "done"
               \* after the loop, "crashed" when an exception left serve()
  nRead,       \* lines taken from sys.stdin so far
  nNonBlank,   \* of which non-blank after strip()
  nOut,        \* lines written to sys.stdout so far
  cur,         \* the line being handled (the last one taken)
  dispatched,  \* _dispatch was entered for cur
  client,      \* "none" | "failed" | "built": BinanceClient(...) for cur
  calls,       \* HTTP requests passed to urlopen for cur
  written,     \* messages passed to _write for cur
  answered,    \* what urlopen returned or raised for cur
  pings,       \* the ping results on sys.stdout so far, in output order
  earlier,     \* a line before cur gave apiKey, apiSecret or baseUrl in params
  sg           \* two applications of _sign side by side (SpecSign only)

vars == <<environ, now, pc, nRead, nNonBlank, nOut, cur, dispatched, client, calls, written, answered, pings, earlier, sg>>

\* ------------------------------------------------------------ BinanceClient

\* variant: `and` for `or` in the credential check
BinanceClient_and(api_key, api_secret, base_url, allow_public) ==
  LET key    == PyOr(api_key, environ.BINANCE_API_KEY)
      secret == PyOr(api_secret, environ.BINANCE_API_SECRET)
      self   == [api_key |-> key, api_secret |-> secret,
                 base_url |-> RStripSlash(base_url), allow_public |-> allow_public]
  IN IF (~Truthy(key) /\ ~Truthy(secret)) /\ ~allow_public
       THEN [exc |-> Exc(Str("BINANCE_API_KEY and BINANCE_API_SECRET are required")), self |-> self]
       ELSE [exc |-> NoExc, self |-> self]

\* BinanceClient.__init__
BinanceClient(api_key, api_secret, base_url, allow_public) ==
  LET key    == PyOr(api_key, environ.BINANCE_API_KEY)
      secret == PyOr(api_secret, environ.BINANCE_API_SECRET)
      self   == [api_key |-> key, api_secret |-> secret,
                 base_url |-> RStripSlash(base_url), allow_public |-> allow_public]
  IN IF (~Truthy(key) \/ ~Truthy(secret)) /\ ~allow_public
       THEN [exc |-> Exc(Str("BINANCE_API_KEY and BINANCE_API_SECRET are required")), self |-> self]
       ELSE [exc |-> NoExc, self |-> self]

\* {k: v for k, v in params.items() if v is not None}
IsNotNone(kv) == kv[2] # Null
IsTruthy(kv) == Truthy(kv[2])
\* variant: `if v` for `if v is not None`
DropFalsy(params) == SelectSeq(params, IsTruthy)
DropNone(params) == SelectSeq(params, IsNotNone)

\* urllib.parse.urlencode(params, doseq=True): one k=v token per entry, in order
urlencode(params) ==
  [i \in 1..Len(params) |->
      <<params[i][1],
        IF params[i][2].t = "hex" THEN params[i][2] ELSE Str(PyStr(params[i][2]))>>]

\* variant: the digest is taken over the empty message
hexdigest_empty(secret, query) == [t |-> "hex", v |-> [key |-> secret, msg |-> <<>>]]

\* hmac.new(secret, query, sha256).hexdigest(): a function of key and message
hexdigest(secret, query) == [t |-> "hex", v |-> [key |-> secret, msg |-> query]]

\* variant: the digest is taken before the timestamp is added
_sign_unstamped(self, params) ==
  IF ~Truthy(self.api_secret)
    THEN [exc |-> Exc(Str("Signing requires BINANCE_API_SECRET")), params |-> <<>>]
    ELSE LET kept      == DropNone(params)
             signature == hexdigest(self.api_secret.v, urlencode(kept))
             stamped   == Append(kept, <<"timestamp", Num(now)>>)
         IN [exc |-> NoExc, params |-> Append(stamped, <<"signature", signature>>)]

\* BinanceClient._sign
_sign(self, params) ==
  IF ~Truthy(self.api_secret)
    THEN [exc |-> Exc(Str("Signing requires BINANCE_API_SECRET")), params |-> <<>>]
    ELSE LET stamped   == Append(DropNone(params), <<"timestamp", Num(now)>>)
             query     == urlencode(stamped)
             signature == hexdigest(self.api_secret.v, query)
         IN [exc |-> NoExc, params |-> Append(stamped, <<"signature", signature>>)]

\* variant: the key header goes out whenever a key is configured
request_headers_keyed(self, signed) ==
  {<<"User-Agent", "binance-mcp-server/1.0">>}
    \cup (IF Truthy(self.api_key)
            THEN {<<"X-MBX-APIKEY", self.api_key.v>>,
                  <<"Content-Type", "application/x-www-form-urlencoded">>}
            ELSE {})

\* variant: the secret goes out in the key header
request_headers_secret(self, signed) ==
  {<<"User-Agent", "binance-mcp-server/1.0">>}
    \cup (IF signed
            THEN {<<"X-MBX-APIKEY", self.api_secret.v>>,
                  <<"Content-Type", "application/x-www-form-urlencoded">>}
            ELSE {})

\* the headers _request puts on the urllib Request
request_headers(self, signed) ==
  {<<"User-Agent", "binance-mcp-server/1.0">>}
    \cup (IF signed
            THEN {<<"X-MBX-APIKEY", self.api_key.v>>,
                  <<"Content-Type", "application/x-www-form-urlencoded">>}
            ELSE {})

\* BinanceClient._request up to urllib.request.urlopen(request, timeout=15):
\* args is the invocation, request is what goes on the wire
_request(self, method, path, params, signed) ==
  IF signed /\ ~Truthy(self.api_key)
    THEN [exc |-> Exc(Str("Signed request requires BINANCE_API_KEY")), req |-> <<>>]
    ELSE
      LET s       == IF signed THEN _sign(self, params)
                               ELSE [exc |-> NoExc, params |-> DropNone(params)]
          query   == urlencode(s.params)
          isGet   == method = "GET"
          headers == request_headers(self, signed)
      IN IF s.exc.raised
           THEN [exc |-> s.exc, req |-> <<>>]
           ELSE [exc |-> NoExc,
                 req |-> <<[args    |-> [method |-> method, path |-> path,
                                         params |-> params, signed |-> signed],
                            request |-> [method  |-> method,
                                         url     |-> self.base_url \o path,
                                         query   |-> IF isGet THEN query ELSE <<>>,
                                         data    |-> IF isGet THEN <<>> ELSE <<query>>,
                                         headers |-> headers]]>>]

get_account(self, recv_window) ==
  _request(self, "GET", "/api/v3/account", <<<<"recvWindow", recv_window>>>>, TRUE)

get_open_orders(self, symbol, recv_window) ==
  _request(self, "GET", "/api/v3/openOrders",
           <<<<"symbol", symbol>>, <<"recvWindow", recv_window>>>>, TRUE)

\* variant: the public trades endpoint, unsigned
get_trades_public(self, symbol, limit, recv_window) ==
  _request(self, "GET", "/api/v3/trades",
           <<<<"symbol", symbol>>, <<"limit", limit>>>>, FALSE)

get_trades(self, symbol, limit, recv_window) ==
  _request(self, "GET", "/api/v3/myTrades",
           <<<<"symbol", symbol>>, <<"limit", limit>>, <<"recvWindow", recv_window>>>>, TRUE)

\* x.upper() on anything but a str
NoUpper == Exc(Str("'NoneType' object has no attribute 'upper'"))

\* variant: the two endpoints swapped
order_path_swapped(test) == IF test THEN "/api/v3/order" ELSE "/api/v3/order/test"

\* the endpoint place_order posts to
order_path(test) == IF test THEN "/api/v3/order/test" ELSE "/api/v3/order"

place_order(self, symbol, side, order_type, quantity, price, time_in_force, quote_order_qty, recv_window, test) ==
  LET payload == << <<"symbol", Str(Upper(symbol.v))>>,
                    <<"side", Str(Upper(side.v))>>,
                    <<"type", Str(Upper(order_type.v))>>,
                    <<"quantity", quantity>>,
                    <<"quoteOrderQty", quote_order_qty>>,
                    <<"price", price>>,
                    <<"timeInForce", time_in_force>>,
                    <<"recvWindow", recv_window>> >>
  IN IF symbol.t # "str" \/ side.t # "str" \/ order_type.t # "str"
       THEN [exc |-> NoUpper, req |-> <<>>]
       ELSE _request(self, "POST", order_path(test), payload, TRUE)

get_candles(self, symbol, interval, limit, start_time, end_time) ==
  LET params == << <<"symbol", Str(Upper(symbol.v))>>,
                   <<"interval", interval>>,
                   <<"limit", limit>>,
                   <<"startTime", start_time>>,
                   <<"endTime", end_time>> >>
  IN IF symbol.t # "str"
       THEN [exc |-> NoUpper, req |-> <<>>]
       ELSE _request(self, "GET", "/api/v3/klines", params, FALSE)

\* the part of _request after urlopen: what the remote's answer becomes
_request_result(ans) ==
  CASE ans.kind = "ok" ->
         [exc |-> NoExc,
          val |-> IF ans.json THEN [t |-> "json", v |-> ans.body] ELSE Str(ans.body)]
    [] ans.kind = "http_error" ->
         [exc |-> Exc(Dict([status  |-> Num(ans.status),
                            payload |-> IF ans.json THEN [t |-> "json", v |-> ans.body]
                                                    ELSE Dict([msg |-> Str(ans.body)])])),
          val |-> Null]
    [] ans.kind = "url_error" ->
         [exc |-> Exc(Dict([status |-> Str("network_error"), payload |-> Str(ans.body)])),
          val |-> Null]
    [] ans.kind = "timeout" ->
         \* socket.timeout while waiting for the response: not a URLError, it
         \* passes through _request as it is
         [exc |-> Exc(Str(ans.body)), val |-> Null]
    [] OTHER ->
         \* http.client.IncompleteRead out of resp.read(), the connection lost
         \* in the middle of the body: args[0] is the bytes read so far
         [exc |-> Exc([t |-> "bytes", v |-> ans.body]), val |-> Null]

\* ------------------------------------------------------------ StdioMCPServer

\* dict.get on request params; anything but a dict has no .get
AttributeError == Exc(Str("'list' object has no attribute 'get'"))
Get(params, k) == params.v[k]

\* what _handle_method does up to its return, its raise or its HTTP call
Return(v, c) == [kind |-> "return", val |-> v, client |-> c, call |-> <<>>]
Raise(e, c) == [kind |-> "raise", val |-> e.arg, client |-> c, call |-> <<>>]
Perform(r, c) ==
  IF r.exc.raised THEN Raise(r.exc, c)
                  ELSE [kind |-> "call", val |-> Null, client |-> c, call |-> r.req]

\* variant: `and` for `or` between the checks
Missing_all(required) == \A x \in required : ~Truthy(x)

\* `not a or not b ...` over the required parameters of a method
Missing(required) == \E x \in required : ~Truthy(x)

\* variant: int() forgotten, the time is a float
ping_result_float == Dict([pong |-> TRUE, time |-> [t |-> "float", v |-> now]])

\* the result of ping
ping_result == Dict([pong |-> TRUE, time |-> Num(now)])

\* variant: the environment is asked first
_client_from_params_env(params, allow_missing_keys) ==
  IF params.t # "dict"
    THEN [exc |-> AttributeError, self |-> Null, client |-> "none"]
    ELSE LET api_key    == PyOr(environ.BINANCE_API_KEY, Get(params, "apiKey"))
             api_secret == PyOr(environ.BINANCE_API_SECRET, Get(params, "apiSecret"))
             base_url   == PyOr(Get(params, "baseUrl"), Str(DefaultBaseUrl))
             c          == BinanceClient(api_key, api_secret, base_url.v, allow_missing_keys)
         IN [exc |-> c.exc, self |-> c.self,
             client |-> IF c.exc.raised THEN "failed" ELSE "built"]

\* StdioMCPServer._client_from_params
_client_from_params(params, allow_missing_keys) ==
  IF params.t # "dict"
    THEN [exc |-> AttributeError, self |-> Null, client |-> "none"]
    ELSE LET api_key    == PyOr(Get(params, "apiKey"), environ.BINANCE_API_KEY)
             api_secret == PyOr(Get(params, "apiSecret"), environ.BINANCE_API_SECRET)
             base_url   == PyOr(Get(params, "baseUrl"), Str(DefaultBaseUrl))
             c          == BinanceClient(api_key, api_secret, base_url.v, allow_missing_keys)
         IN [exc |-> c.exc, self |-> c.self,
             client |-> IF c.exc.raised THEN "failed" ELSE "built"]

\* variant: the message does not name the method
UnknownMethod_unnamed(method) == Exc(Str("Method not found"))

\* raise ValueError(f"Unknown method: {method}")
UnknownMethod(method) == Exc(Str("Unknown method: " \o PyStr(method)))

\* StdioMCPServer._handle_method
_handle_method(method, params) ==
  CASE method = Str("ping") ->
         Return(ping_result, "none")
    [] method = Str("get_account") ->
         LET c == _client_from_params(params, FALSE)
         IN IF c.exc.raised THEN Raise(c.exc, c.client)
            ELSE Perform(get_account(c.self, Get(params, "recvWindow")), c.client)
    [] method = Str("get_open_orders") ->
         LET c == _client_from_params(params, FALSE)
         IN IF c.exc.raised THEN Raise(c.exc, c.client)
            ELSE Perform(get_open_orders(c.self, Get(params, "symbol"),
                                         Get(params, "recvWindow")), c.client)
    [] method = Str("get_trades") ->
         LET c == _client_from_params(params, FALSE)
         IN IF c.exc.raised THEN Raise(c.exc, c.client)
            ELSE IF Missing({Get(params, "symbol")})
              THEN Raise(Exc(Str("symbol is required for get_trades")), c.client)
              ELSE Perform(get_trades(c.self, Get(params, "symbol"), Get(params, "limit"),
                                      Get(params, "recvWindow")), c.client)
    [] method = Str("place_order") ->
         LET c == _client_from_params(params, FALSE)
         IN IF c.exc.raised THEN Raise(c.exc, c.client)
            ELSE IF Missing({Get(params, "symbol"), Get(params, "side"),
                             Get(params, "type")})
              THEN Raise(Exc(Str("symbol, side, and type are required for place_order")),
                         c.client)
              ELSE Perform(place_order(c.self, Get(params, "symbol"), Get(params, "side"),
                                       Get(params, "type"), Get(params, "quantity"),
                                       Get(params, "price"), Get(params, "timeInForce"),
                                       Get(params, "quoteOrderQty"),
                                       Get(params, "recvWindow"),
                                       Truthy(Get(params, "test"))), c.client)
    [] method = Str("get_candles") ->
         IF params.t # "dict" THEN Raise(AttributeError, "none")
         ELSE IF Missing({Get(params, "symbol"), Get(params, "interval")})
           THEN Raise(Exc(Str("symbol and interval are required for get_candles")), "none")
           ELSE LET c == _client_from_params(params, TRUE)
                IN IF c.exc.raised THEN Raise(c.exc, c.client)
                   ELSE Perform(get_candles(c.self, Get(params, "symbol"),
                                            Get(params, "interval"), Get(params, "limit"),
                                            Get(params, "startTime"),
                                            Get(params, "endTime")), c.client)
    [] OTHER ->
         Raise(UnknownMethod(method), "none")

\* variant: the error envelope carries an empty result as well
ErrorEnvelope_both(id, code, message) ==
  [jsonrpc |-> "2.0", id |-> id, result |-> Null,
   error |-> [code |-> code, message |-> message]]

\* the two envelopes of the protocol
ResultEnvelope(id, result) == [jsonrpc |-> "2.0", id |-> id, result |-> result]
ErrorEnvelope(id, code, message) ==
  [jsonrpc |-> "2.0", id |-> id, error |-> [code |-> code, message |-> message]]

ParamKeys ==
  {"apiKey", "apiSecret", "baseUrl", "symbol", "side", "type", "interval", "test",
   "limit", "recvWindow", "quantity", "quoteOrderQty", "price", "timeInForce",
   "startTime", "endTime"}
EmptyDict == [k \in ParamKeys |-> Null]

\* StdioMCPServer._dispatch up to the return of _handle_method or its HTTP call
_dispatch(request) ==
  LET request_id == request.id
      method     == request.method
      params     == PyOr(request.params, Dict(EmptyDict))
      h          == _handle_method(method, params)
  IN [response |-> CASE h.kind = "return" -> <<ResultEnvelope(request_id, h.val)>>
                     [] h.kind = "raise"  ->
                          <<ErrorEnvelope(request_id, DispatchErrorCode, h.val)>>
                     [] OTHER             -> <<>>,
      call     |-> h.call,
      client   |-> h.client,
      ping     |-> h.kind = "return" /\ method = Str("ping")]

\* StdioMCPServer._dispatch from the return of the HTTP call on
_dispatch_result(request, ans) ==
  LET r == _request_result(ans)
  IN IF r.exc.raised
       THEN ErrorEnvelope(request.id, DispatchErrorCode, r.exc.arg)
       ELSE ResultEnvelope(request.id, r.val)

\* ------------------------------------------------------------------ inputs

Ids == {Null, Num(1), Num(2)}

Envs == [BINANCE_API_KEY : {Null, Str("ENVKEY")}, BINANCE_API_SECRET : {Null, Str("ENVSECRET")}]

\* credentials and base URL given in params
Creds ==
  {[EmptyDict EXCEPT !["apiKey"] = k, !["apiSecret"] = s] :
     k \in {Null, Str("PKEY")}, s \in {Null, Str("PSECRET")}}
CredsAndUrl ==
  {[c EXCEPT !["baseUrl"] = u] :
     c \in Creds, u \in {Null, Str("https://testnet.binance.vision/")}}

AccountParams ==
  {[c EXCEPT !["recvWindow"] = r] : c \in CredsAndUrl, r \in {Null, Num(0)}}

OpenOrdersParams ==
  {[c EXCEPT !["symbol"] = s, !["recvWindow"] = r] :
     c \in Creds, s \in {Null, Str(""), Str("btcusdt")}, r \in {Null, Num(5000)}}

TradesParams ==
  {[c EXCEPT !["symbol"] = s, !["limit"] = l, !["recvWindow"] = r] :
     c \in Creds, s \in {Null, Str("btcusdt")}, l \in {Null, Num(10)},
     r \in {Null, Bool(FALSE)}}

\* the optional fields of an order
OrderOptions ==
  { EmptyDict,
    [EmptyDict EXCEPT !["quantity"] = Num(1)],
    [EmptyDict EXCEPT !["quoteOrderQty"] = Num(100)],
    [EmptyDict EXCEPT !["quantity"] = Num(1), !["price"] = Num(0),
                      !["timeInForce"] = Str("GTC")],
    [EmptyDict EXCEPT !["quantity"] = Num(0), !["price"] = Num(30000),
                      !["timeInForce"] = Str(""), !["recvWindow"] = Num(5000)],
    [EmptyDict EXCEPT !["quantity"] = Num(1), !["quoteOrderQty"] = Num(100),
                      !["price"] = Num(30000), !["timeInForce"] = Str("GTC"),
                      !["recvWindow"] = Num(5000)] }

OrderParams ==
  {[o EXCEPT !["apiKey"] = c["apiKey"], !["apiSecret"] = c["apiSecret"],
             !["symbol"] = Str("btcusdt"), !["side"] = Str("buy"),
             !["type"] = Str("limit"), !["test"] = t] :
     o \in OrderOptions, c \in Creds, t \in {Null, Bool(FALSE), Bool(TRUE)}}
  \cup
  {[c EXCEPT !["symbol"] = s, !["side"] = d, !["type"] = y, !["test"] = Bool(TRUE)] :
     c \in Creds, s \in {Null, Str("btcusdt")}, d \in {Null, Str("buy")},
     y \in {Null, Str("limit")}}

CandlesParams ==
  {[c EXCEPT !["baseUrl"] = u, !["symbol"] = s, !["interval"] = i,
             !["limit"] = l, !["startTime"] = b] :
     c \in Creds, u \in {Null, Str("https://testnet.binance.vision/")},
     s \in {Null, Str("btcusdt")}, i \in {Null, Str("1m")},
     l \in {Null, Num(0)}, b \in {Null, Num(1)}}

\* params that are not an object: falsy ones read as {}, the others have no .get
OddParams == {Null, [t |-> "list", v |-> <<Num(1)>>]}

Requests ==
  [id : Ids, method : {Str("ping")}, params : OddParams \cup {Dict(EmptyDict)}]
  \cup [id : Ids, method : {Null, Str("bogus")},
        params : {Null, Dict([EmptyDict EXCEPT !["apiKey"] = Str("PKEY"),
                                               !["apiSecret"] = Str("PSECRET")])}]
  \cup [id : Ids,
        method : {Str("get_account"), Str("get_open_orders"), Str("get_trades"),
                  Str("place_order"), Str("get_candles")},
        params : OddParams]
  \cup [id : Ids, method : {Str("get_account")}, params : {Dict(d) : d \in AccountParams}]
  \cup [id : Ids, method : {Str("get_open_orders")},
        params : {Dict(d) : d \in OpenOrdersParams}]
  \cup [id : Ids, method : {Str("get_trades")}, params : {Dict(d) : d \in TradesParams}]
  \cup [id : Ids, method : {Str("place_order")}, params : {Dict(d) : d \in OrderParams}]
  \cup [id : Ids, method : {Str("get_candles")}, params : {Dict(d) : d \in CandlesParams}]

\* a line of standard input: blank after strip(), not JSON, JSON but not an
\* object, or a JSON object
NoRequest == [id |-> Null, method |-> Null, params |-> Null]
Lines ==
  {[kind |-> k, request |-> NoRequest] : k \in {"blank", "invalid", "nonobject"}}
  \cup {[kind |-> "object", request |-> r] : r \in Requests}
NoLine == [kind |-> "none", request |-> NoRequest]

\* what the remote service or the transport can answer
Answers ==
  { [kind |-> "ok", status |-> 200, json |-> TRUE, body |-> "{\"ok\":true}"],
    [kind |-> "ok", status |-> 200, json |-> FALSE, body |-> "pong"],
    [kind |-> "http_error", status |-> 400, json |-> TRUE, body |-> "{\"code\":-1102}"],
    [kind |-> "http_error", status |-> 502, json |-> FALSE, body |-> "Bad Gateway"],
    [kind |-> "url_error", status |-> 0, json |-> FALSE,
     body |-> "<urlopen error [Errno 111] Connection refused>"],
    [kind |-> "timeout", status |-> 0, json |-> FALSE, body |-> "timed out"],
    [kind |-> "truncated", status |-> 200, json |-> TRUE, body |-> "{\"ok\":"] }

\* ----------------------------------------------------------------- actions

NoSign == [stage |-> "off", self |-> Null, first |-> <<>>, second |-> <<>>, out |-> <<>>]

MainInit ==
  /\ environ \in Envs
  /\ now = 0
  /\ pc = "read"
  /\ nRead = 0
  /\ nNonBlank = 0
  /\ nOut = 0
  /\ cur = NoLine
  /\ dispatched = FALSE
  /\ client = "none"
  /\ calls = <<>>
  /\ written = <<>>
  /\ answered = <<>>
  /\ pings = <<>>
  /\ earlier = FALSE

Init == MainInit /\ sg = NoSign

\* json.dumps in _write takes strings, numbers, booleans, None, lists and
\* dicts; on bytes it raises TypeError
JsonSerializable(message) ==
  ~("error" \in DOMAIN message /\ message.error.message.t = "bytes")

\* variant: the line stays in the buffer of sys.stdout
_write_buffered(message) ==
  /\ written' = Append(written, message)
  /\ nOut' = nOut

\* StdioMCPServer._write: one line on standard output, flushed
_write(message) ==
  /\ written' = Append(written, message)
  /\ nOut' = nOut + 1

\* StdioMCPServer.serve: the loop body for one line taken from sys.stdin, up to
\* the next read or to the blocking urlopen
serve(line) ==
  /\ pc = "read"
  /\ nRead < MaxLines
  /\ nRead' = nRead + 1
  /\ cur' = line
  /\ answered' = <<>>
  /\ UNCHANGED <<environ, now, earlier, sg>>
  /\ CASE line.kind = "blank" ->
            /\ pc' = "next"
            /\ UNCHANGED <<nNonBlank, nOut, pings>>
            /\ dispatched' = FALSE /\ client' = "none" /\ calls' = <<>> /\ written' = <<>>
       [] line.kind = "invalid" ->
            /\ pc' = "next"
            /\ nNonBlank' = nNonBlank + 1
            /\ dispatched' = FALSE /\ client' = "none" /\ calls' = <<>>
            /\ written' = <<ErrorEnvelope(Null, ParseErrorCode, Str("invalid JSON"))>>
            /\ nOut' = nOut + 1
            /\ UNCHANGED pings
       [] line.kind = "nonobject" ->
            \* request.get("id") on a list, number, string or None: AttributeError
            \* outside the try of _dispatch
            /\ pc' = "crashed"
            /\ nNonBlank' = nNonBlank + 1
            /\ dispatched' = TRUE /\ client' = "none" /\ calls' = <<>> /\ written' = <<>>
            /\ UNCHANGED <<nOut, pings>>
       [] OTHER ->
            \E d \in {_dispatch(line.request)} :
               /\ nNonBlank' = nNonBlank + 1
               /\ dispatched' = TRUE
               /\ client' = d.client
               /\ calls' = d.call
               /\ written' = d.response
               /\ nOut' = nOut + Len(d.response)
               /\ pings' = IF d.ping THEN Append(pings, d.response[1].result.v) ELSE pings
               /\ pc' = IF d.call = <<>> THEN "next" ELSE "http"

\* urlopen returns or raises; _request, _dispatch and serve run on to the write
RemoteAnswer(ans) ==
  /\ pc = "http"
  /\ \E response \in {_dispatch_result(cur.request, ans)} :
        IF JsonSerializable(response)
          THEN _write(response) /\ pc' = "next"
          ELSE pc' = "crashed" /\ UNCHANGED <<written, nOut>>
  /\ answered' = <<ans>>
  /\ UNCHANGED <<environ, now, nRead, nNonBlank, cur, dispatched, client, calls, pings, earlier, sg>>

\* the line gives credentials or a base URL in its params
GivesCredentials(line) ==
  /\ line.kind = "object"
  /\ line.request.params.t = "dict"
  /\ \E k \in {"apiKey", "apiSecret", "baseUrl"} : Truthy(line.request.params.v[k])

\* variant: the credentials a line gave are kept as the defaults of the next
Continue_caching ==
  /\ pc = "next"
  /\ pc' = "read"
  /\ cur' = NoLine
  /\ dispatched' = FALSE
  /\ client' = "none"
  /\ calls' = <<>>
  /\ written' = <<>>
  /\ answered' = <<>>
  /\ earlier' = (earlier \/ GivesCredentials(cur))
  /\ environ' = IF GivesCredentials(cur)
                  THEN [BINANCE_API_KEY |->
                          PyOr(cur.request.params.v["apiKey"], environ.BINANCE_API_KEY),
                        BINANCE_API_SECRET |->
                          PyOr(cur.request.params.v["apiSecret"], environ.BINANCE_API_SECRET)]
                  ELSE environ
  /\ UNCHANGED <<now, nRead, nNonBlank, nOut, pings, sg>>

\* the for loop takes up its next iteration: line, payload and response of the
\* finished one are gone
Continue ==
  /\ pc = "next"
  /\ pc' = "read"
  /\ cur' = NoLine
  /\ dispatched' = FALSE
  /\ client' = "none"
  /\ calls' = <<>>
  /\ written' = <<>>
  /\ answered' = <<>>
  /\ earlier' = (earlier \/ GivesCredentials(cur))
  /\ UNCHANGED <<environ, now, nRead, nNonBlank, nOut, pings, sg>>

\* the wall clock advances
Tick ==
  /\ now < MaxClock
  /\ now' = now + 1
  /\ UNCHANGED <<environ, pc, nRead, nNonBlank, nOut, cur, dispatched, client, calls, written, answered, pings, earlier, sg>>

\* sys.stdin is exhausted: the for loop ends and serve returns
\* time.time() is the system's wall clock: between two readings it can be
\* set back (an NTP step, a manual change, a resumed virtual machine)
ClockSetBack ==
  /\ now > 0
  /\ now' = now - 1
  /\ UNCHANGED <<environ, pc, nRead, nNonBlank, nOut, cur, dispatched, client, calls, written, answered, pings, earlier, sg>>

EndOfInput ==
  /\ pc = "read"
  /\ pc' = "done"
  /\ UNCHANGED <<environ, now, nRead, nNonBlank, nOut, cur, dispatched, client, calls, written, answered, pings, earlier, sg>>

Next ==
  \/ \E line \in Lines : serve(line)
  \/ \E ans \in Answers : RemoteAnswer(ans)
  \/ Continue
  \/ Tick
  \/ ClockSetBack
  \/ EndOfInput

Spec == Init /\ [][Next]_vars

\* -------------------------------------------- _sign applied twice, side by side

\* clients that can sign
SignClients ==
  {[api_key |-> Str("PKEY"), api_secret |-> s, base_url |-> DefaultBaseUrl,
    allow_public |-> FALSE] : s \in {Str("PSECRET"), Str("ENVSECRET")}}

\* the params dict handed to _sign, in insertion order
SignParams ==
  {<<<<"symbol", s>>, <<"recvWindow", r>>>> :
     s \in {Str("BTCUSDT"), Str("ETHUSDT")},
     r \in {Null, Num(5000), Str("5000"), Num(0)}}

InitSign ==
  /\ MainInit
  /\ sg \in [stage : {"start"}, self : SignClients, first : SignParams,
             second : SignParams, out : {<<>>}]

\* self._sign(first)
SignFirst ==
  /\ sg.stage = "start"
  /\ sg' = [sg EXCEPT !.stage = "one", !.out = <<_sign(sg.self, sg.first)>>]
  /\ UNCHANGED <<environ, now, pc, nRead, nNonBlank, nOut, cur, dispatched, client, calls, written, answered, pings, earlier>>

\* self._sign(second), the clock having moved or not
SignSecond ==
  /\ sg.stage = "one"
  /\ sg' = [sg EXCEPT !.stage = "two", !.out = Append(sg.out, _sign(sg.self, sg.second))]
  /\ UNCHANGED <<environ, now, pc, nRead, nNonBlank, nOut, cur, dispatched, client, calls, written, answered, pings, earlier>>

NextSign ==
  \/ SignFirst
  \/ SignSecond
  \/ Tick
  \/ ClockSetBack

SpecSign == InitSign /\ [][NextSign]_vars

TypeOK ==
  /\ pc \in {"read", "http", "next", "done", "crashed"}
  /\ nOut <= nNonBlank
  /\ Len(written) <= 1
  /\ Len(calls) <= 1

\* ------------------------------------------------------------- properties

\* the request of the line in hand and its parameters as _dispatch reads them
Req == cur.request
IsRequest == cur.kind = "object"
ObjectParams == Req.params.t \in {"null", "dict"}
Param(k) == PyOr(Req.params, Dict(EmptyDict)).v[k]
KeyConfigured == Truthy(Param("apiKey")) \/ Truthy(environ.BINANCE_API_KEY)
SecretConfigured == Truthy(Param("apiSecret")) \/ Truthy(environ.BINANCE_API_SECRET)
SignedMethods ==
  {Str("get_account"), Str("get_open_orders"), Str("get_trades"), Str("place_order")}
Wrote(message) == pc = "next" => written = <<message>>
NoHttp == pc # "http" /\ calls = <<>>
CredentialError ==
  ErrorEnvelope(Req.id, DispatchErrorCode,
                Str("BINANCE_API_KEY and BINANCE_API_SECRET are required"))

\* the query string or body that goes out with a call, and its keys
Sent(c) == IF c.request.method = "GET" THEN c.request.query ELSE c.request.data[1]
Keys(q) == {q[j][1] : j \in 1..Len(q)}
Headers(c) == {h[1] : h \in c.request.headers}
SignedString(c) == Sent(c)[Len(Sent(c))][2].v.msg

\* k=v for every parameter that is not null, in the order given
RECURSIVE Encoded(_)
Encoded(params) ==
  IF params = <<>> THEN <<>>
  ELSE (IF Head(params)[2] = Null
          THEN <<>>
          ELSE << <<Head(params)[1], Str(PyStr(Head(params)[2]))>> >>)
       \o Encoded(Tail(params))

\* C1: handling a non-empty line, whatever it holds and whatever the remote
\* answers, never lets an exception leave serve; the loop ends only at end of
\* input.
C1_NoExceptionLeavesServe == pc # "crashed"

\* C2: a request object yields exactly one output line with the request's id,
\* an unparseable line exactly one with id null, a blank line none; after any
\* prefix of the input the output has one line per non-blank line processed.
C2_RoundTrip ==
  /\ (pc = "next" /\ cur.kind = "object") =>
        Len(written) = 1 /\ written[1].id = Req.id
  /\ (pc = "next" /\ cur.kind = "invalid") =>
        Len(written) = 1 /\ written[1].id = Null
  /\ cur.kind = "blank" => written = <<>>
  /\ pc # "http" => nOut = nNonBlank

\* C3: a non-empty line that does not parse as a single JSON object yields
\* exactly the -32700 "invalid JSON" response with id null, never reaches
\* dispatch, and the server returns to reading.
C3_ParseErrorNeverDispatched ==
  cur.kind \in {"invalid", "nonobject"} =>
    /\ pc = "next"
    /\ written = <<ErrorEnvelope(Null, ParseErrorCode, Str("invalid JSON"))>>
    /\ ~dispatched /\ client = "none" /\ calls = <<>>

\* the requests of C4: a required parameter is lacking
LacksTrades == Req.method = Str("get_trades") /\ ~Truthy(Param("symbol"))
LacksOrder ==
  /\ Req.method = Str("place_order")
  /\ (~Truthy(Param("symbol")) \/ ~Truthy(Param("side")) \/ ~Truthy(Param("type")))
LacksCandles ==
  /\ Req.method = Str("get_candles")
  /\ (~Truthy(Param("symbol")) \/ ~Truthy(Param("interval")))
TradesError ==
  ErrorEnvelope(Req.id, DispatchErrorCode, Str("symbol is required for get_trades"))
OrderError ==
  ErrorEnvelope(Req.id, DispatchErrorCode,
                Str("symbol, side, and type are required for place_order"))
CandlesError ==
  ErrorEnvelope(Req.id, DispatchErrorCode,
                Str("symbol and interval are required for get_candles"))

\* C4 as stated: under every credential configuration a get_trades request
\* without symbol, a place_order request lacking symbol, side or type and a
\* get_candles request lacking symbol or interval are answered with the error
\* that names the required parameters, and no HTTP call is made.
C4_MissingParameterAnyCredentials ==
  (IsRequest /\ ObjectParams) =>
    /\ LacksTrades => NoHttp /\ Wrote(TradesError)
    /\ LacksOrder => NoHttp /\ Wrote(OrderError)
    /\ LacksCandles => NoHttp /\ Wrote(CandlesError)

\* C4 amended: get_candles is answered so under every credential
\* configuration; get_trades and place_order are answered so when key and
\* secret are configured (params or environment) and with the
\* missing-credential error otherwise; in no case is an HTTP call made.
C4_MissingParameter ==
  (IsRequest /\ ObjectParams) =>
    /\ LacksTrades =>
         NoHttp /\ Wrote(IF KeyConfigured /\ SecretConfigured
                           THEN TradesError ELSE CredentialError)
    /\ LacksOrder =>
         NoHttp /\ Wrote(IF KeyConfigured /\ SecretConfigured
                           THEN OrderError ELSE CredentialError)
    /\ LacksCandles => NoHttp /\ Wrote(CandlesError)

C4_Witness ==
  /\ IsRequest /\ ObjectParams /\ pc = "next"
  /\ LacksOrder /\ Truthy(Param("symbol")) /\ Truthy(Param("type"))
  /\ ~Truthy(Param("apiKey")) /\ KeyConfigured /\ SecretConfigured
  /\ written = <<OrderError>>

\* C5: a signed method whose key or secret is configured neither in params nor
\* in the environment is answered with the -32000 error that names the
\* missing credentials, and no HTTP request is issued for the line.  The
\* requests are those of the protocol: params an object, null or omitted.
C5_MissingCredential ==
  (IsRequest /\ ObjectParams /\ Req.method \in SignedMethods
     /\ ~(KeyConfigured /\ SecretConfigured)) =>
    /\ NoHttp
    /\ Wrote(CredentialError)
    /\ pc = "next" => written[1].error.code = DispatchErrorCode

C5_Witness ==
  /\ IsRequest /\ ObjectParams /\ pc = "next"
  /\ Req.method = Str("get_open_orders")
  /\ KeyConfigured /\ ~SecretConfigured
  /\ written = <<CredentialError>>

\* C6: what a signed call sends is the signed string followed by the
\* signature: the signed string is the encoding, in the order given, of the
\* parameters that are not null, then timestamp; signature comes last and is
\* not in the signed string.
C6_SignatureCoversWhatIsSent ==
  \A i \in 1..Len(calls) :
    LET c    == calls[i]
        sent == Sent(c)
        n    == Len(sent)
    IN c.args.signed =>
         /\ n >= 2
         /\ sent[n][1] = "signature"
         /\ sent[n][2].t = "hex"
         /\ SignedString(c) = SubSeq(sent, 1, n - 1)
         /\ SubSeq(sent, 1, n - 2) = Encoded(c.args.params)
         /\ sent[n - 1][1] = "timestamp"
         /\ \E ms \in 0..MaxClock : sent[n - 1][2] = Str(ToString(ms))
         /\ "signature" \notin Keys(SignedString(c))

C6_Witness ==
  /\ pc = "http"
  /\ Len(calls) = 1
  /\ calls[1].args.signed
  /\ calls[1].request.method = "POST"
  /\ Len(Sent(calls[1])) = 10
  /\ now = 1

\* C7: in every call, signed or not, a parameter is in what is sent, and in
\* the signed string, exactly when its value is not null; 0, "" and false
\* are kept.  Parameter values are strings, numbers, booleans and null.
C7_NullExclusion ==
  \A i \in 1..Len(calls) :
    LET c == calls[i]
    IN \A j \in 1..Len(c.args.params) :
         LET kv == c.args.params[j]
         IN /\ (kv[1] \in Keys(Sent(c))) <=> (kv[2] # Null)
            /\ c.args.signed => ((kv[1] \in Keys(SignedString(c))) <=> (kv[2] # Null))

C7_Witness ==
  /\ Len(calls) = 1
  /\ calls[1].args.signed
  /\ \E j \in 1..Len(calls[1].args.params) : calls[1].args.params[j][2] = Null
  /\ \E j \in 1..Len(calls[1].args.params) : calls[1].args.params[j][2] = Num(0)
  /\ \E j \in 1..Len(calls[1].args.params) : calls[1].args.params[j][2] = Str("")

\* C8: a signed call carries the X-MBX-APIKEY header, a timestamp and a
\* signature; the unsigned get_candles call carries none of them, whatever
\* credentials are configured; get_candles with symbol and interval goes to
\* its HTTP call also when no credentials are configured.
C8_KeyHeaderOnlyWhenSigned ==
  /\ \A i \in 1..Len(calls) :
       LET c == calls[i]
       IN /\ c.args.signed <=> (Req.method # Str("get_candles"))
          /\ c.args.signed =>
               /\ \E key \in {Param("apiKey"), environ.BINANCE_API_KEY} :
                    Truthy(key) /\ <<"X-MBX-APIKEY", key.v>> \in c.request.headers
               /\ {"timestamp", "signature"} \subseteq Keys(Sent(c))
          /\ ~c.args.signed =>
               /\ "X-MBX-APIKEY" \notin Headers(c)
               /\ Keys(Sent(c)) \cap {"timestamp", "signature"} = {}
  /\ (IsRequest /\ ObjectParams /\ Req.method = Str("get_candles")
        /\ Truthy(Param("symbol")) /\ Truthy(Param("interval"))) =>
       Len(calls) = 1 /\ pc \in {"http", "next", "crashed"}

C8_Witness ==
  /\ pc = "http"
  /\ Req.method = Str("get_candles")
  /\ Truthy(Param("apiKey")) /\ Truthy(Param("apiSecret"))
  /\ Truthy(environ.BINANCE_API_KEY) /\ Truthy(environ.BINANCE_API_SECRET)
  /\ Len(calls) = 1
  /\ Headers(calls[1]) = {"User-Agent"}

\* C9: a place_order request whose test is true goes only to POST
\* /api/v3/order/test; /api/v3/order is reached only by a place_order request
\* whose test is absent or falsy.
C9_TestOrderNeverLive ==
  \A i \in 1..Len(calls) :
    LET c == calls[i]
    IN /\ (Req.method = Str("place_order") /\ Truthy(Param("test"))) =>
            /\ c.request.method = "POST"
            /\ c.args.path = "/api/v3/order/test"
            /\ c.request.url \in {DefaultBaseUrl \o "/api/v3/order/test",
                                  "https://testnet.binance.vision/api/v3/order/test"}
       /\ (c.args.path = "/api/v3/order"
             \/ c.request.url \in {DefaultBaseUrl \o "/api/v3/order",
                                   "https://testnet.binance.vision/api/v3/order"}) =>
            Req.method = Str("place_order") /\ ~Truthy(Param("test"))

C9_Witness ==
  /\ pc = "http"
  /\ Req.method = Str("place_order")
  /\ Param("test") = Bool(TRUE)
  /\ Len(calls) = 1
  /\ calls[1].request.url = DefaultBaseUrl \o "/api/v3/order/test"

\* C10: ping, under every credential configuration and with params of any
\* kind, is answered with the result {pong: true, time: <integer ms>} under
\* the request's id, with no client constructed and no HTTP call.
C10_PingNeedsNothing ==
  (IsRequest /\ Req.method = Str("ping")) =>
    /\ pc = "next"
    /\ client = "none"
    /\ calls = <<>>
    /\ \E ms \in 0..MaxClock :
         written = <<ResultEnvelope(Req.id, Dict([pong |-> TRUE, time |-> Num(ms)]))>>

C10_Witness ==
  /\ IsRequest /\ Req.method = Str("ping") /\ pc = "next"
  /\ Req.params.t = "list"
  /\ ~Truthy(environ.BINANCE_API_KEY) /\ ~Truthy(environ.BINANCE_API_SECRET)
  /\ Len(written) = 1
  /\ written[1].result.v.time = Num(1)

\* ---------------------------------------------------------------------- C11
\* C11: the time values of successive ping results are non-decreasing in
\* output order, and every ping result has pong equal to true.
C11_PingTimesNonDecreasing ==
  /\ \A i \in 1..Len(pings) : pings[i].pong = TRUE
  /\ \A i \in 1..Len(pings) : \A j \in i..Len(pings) : pings[i].time.v <= pings[j].time.v

\* ---------------------------------------------------------------------- C12
KnownMethods == SignedMethods \cup {Str("ping"), Str("get_candles")}

\* C12: a request whose method is none of the six (a request without method
\* included) is answered at once by the error envelope with the request's id,
\* code -32000 and a message naming the method, whatever credentials are
\* configured; no client is constructed and no HTTP call is made.
C12_UnknownMethod ==
  (IsRequest /\ Req.method \notin KnownMethods) =>
    /\ pc = "next"
    /\ written = <<ErrorEnvelope(Req.id, DispatchErrorCode,
                                 Str("Unknown method: " \o PyStr(Req.method)))>>
    /\ client = "none"
    /\ calls = <<>>

C12_Witness ==
  /\ IsRequest /\ Req.method = Str("bogus") /\ Req.id = Num(2)
  /\ KeyConfigured /\ SecretConfigured
  /\ Len(written) = 1 /\ written[1].error.message = Str("Unknown method: bogus")

\* ---------------------------------------------------------------------- C13
\* a value is given in params when it is there and not empty
Given(k) == Truthy(Param(k))
ExpectedKey == IF Given("apiKey") THEN Param("apiKey") ELSE environ.BINANCE_API_KEY
ExpectedSecret == IF Given("apiSecret") THEN Param("apiSecret") ELSE environ.BINANCE_API_SECRET
ExpectedBaseUrl == IF Given("baseUrl") THEN RStripSlash(Param("baseUrl").v) ELSE DefaultBaseUrl
KeyHeader(c) == {h[2] : h \in {x \in c.request.headers : x[1] = "X-MBX-APIKEY"}}
Signature(c) == Sent(c)[Len(Sent(c))][2]

\* C13: the key, the secret and the base URL that an HTTP call uses are each
\* the value given in the request's params (the base URL without its trailing
\* slash) and, only when none is given, BINANCE_API_KEY, BINANCE_API_SECRET
\* and https://api.binance.com; the three are resolved one by one.
C13_CredentialPrecedence ==
  \A i \in 1..Len(calls) :
    LET c == calls[i] IN
      /\ c.request.url = ExpectedBaseUrl \o c.args.path
      /\ c.args.signed =>
            /\ KeyHeader(c) = {ExpectedKey.v}
            /\ Signature(c).v.key = ExpectedSecret.v

C13_Witness ==
  /\ pc = "http" /\ Req.method = Str("get_account")
  /\ environ.BINANCE_API_KEY = Str("ENVKEY") /\ environ.BINANCE_API_SECRET = Str("ENVSECRET")
  /\ Given("apiKey") /\ ~Given("apiSecret") /\ Given("baseUrl")
  /\ KeyHeader(calls[1]) = {"PKEY"}
  /\ Signature(calls[1]).v.key = "ENVSECRET"
  /\ calls[1].request.url = "https://testnet.binance.vision/api/v3/account"

\* ---------------------------------------------------------------------- C14
\* what a step that takes a line builds and emits, as a function of that
\* line, the environment and the clock
FromLineAlone ==
  (pc = "read" /\ cur'.kind = "object") =>
    \E d \in {_dispatch(cur'.request)} : calls' = d.call /\ written' = d.response

\* what a step that ends an HTTP call emits, as a function of the line and of
\* the remote's answer
FromAnswerAlone ==
  (pc = "http" /\ pc' = "next") =>
    written' = <<_dispatch_result(cur.request, answered'[1])>>

\* a line that gives no credentials and no base URL goes out with the
\* environment's key and secret to the default base URL
DefaultsOnly ==
  (IsRequest /\ ~GivesCredentials(cur)) =>
    \A i \in 1..Len(calls) :
      /\ calls[i].request.url = DefaultBaseUrl \o calls[i].args.path
      /\ calls[i].args.signed =>
            /\ KeyHeader(calls[i]) = {environ.BINANCE_API_KEY.v}
            /\ Signature(calls[i]).v.key = environ.BINANCE_API_SECRET.v

\* C14: nothing crosses from one request to the next.  The environment
\* defaults are never written; the HTTP request built and the response
\* emitted for a line are those that the line, the environment, the clock and
\* the remote's answer determine, whatever lines came before; a line that
\* gives no credentials uses the environment's, also after a line that gave
\* its own.
C14_NoStateCrossesRequests ==
  /\ []DefaultsOnly
  /\ [][environ' = environ /\ FromLineAlone /\ FromAnswerAlone]_vars

C14_Witness ==
  /\ earlier /\ pc = "next" /\ Req.method = Str("get_account")
  /\ ~GivesCredentials(cur) /\ Len(calls) = 1
  /\ KeyHeader(calls[1]) = {"ENVKEY"}
  /\ Signature(calls[1]).v.key = "ENVSECRET"
  /\ calls[1].request.url = "https://api.binance.com/api/v3/account"
  /\ Len(written) = 1

\* ---------------------------------------------------------------------- C15
\* the operation of the request in hand has failed: a method other than ping
\* that made no HTTP call has raised; one that made a call and got anything
\* but a 2xx answer has raised
OperationFailed ==
  /\ IsRequest
  /\ IF calls = <<>> THEN Req.method # Str("ping")
                     ELSE answered # <<>> /\ answered[1].kind # "ok"

\* C15: every emitted line has jsonrpc "2.0", an id and exactly one of result
\* and error; the error code is -32700 exactly for a line that failed to
\* parse, with id null, and -32000 exactly for a failure caught in dispatch; a
\* request whose operation failed yields no result.
C15_Envelope ==
  \A i \in 1..Len(written) :
    LET m == written[i] IN
      /\ m.jsonrpc = "2.0"
      /\ DOMAIN m \in {{"jsonrpc", "id", "result"}, {"jsonrpc", "id", "error"}}
      /\ "error" \in DOMAIN m =>
            /\ m.error.code \in {ParseErrorCode, DispatchErrorCode}
            /\ m.error.code = ParseErrorCode <=> cur.kind = "invalid"
            /\ m.error.code = ParseErrorCode => m.id = Null
            /\ m.error.code = DispatchErrorCode <=> OperationFailed
      /\ "result" \in DOMAIN m => IsRequest /\ ~OperationFailed /\ m.id = Req.id

C15_Witness ==
  /\ pc = "next" /\ IsRequest /\ Len(calls) = 1 /\ Len(written) = 1
  /\ answered[1].kind = "http_error"
  /\ DOMAIN written[1] = {"jsonrpc", "id", "error"}
  /\ written[1].error.code = DispatchErrorCode /\ written[1].id = Num(1)

\* ---------------------------------------------------------------------- C16
SignedA == sg.out[1].params
SignedB == sg.out[2].params
SignatureOf(p) == p[Len(p)][2]
TimestampOf(p) == p[Len(p) - 1][2]

\* the string a parameter value is sent as; nothing for None
Form(v) == IF v = Null THEN <<>> ELSE <<PyStr(v)>>

\* the two parameter dicts differ in the value of exactly one parameter
DifferInOneValue ==
  /\ Len(sg.first) = Len(sg.second)
  /\ \A i \in 1..Len(sg.first) : sg.first[i][1] = sg.second[i][1]
  /\ Cardinality({i \in 1..Len(sg.first) : sg.first[i][2] # sg.second[i][2]}) = 1

\* ... and that parameter is sent differently
DifferInOneForm ==
  /\ DifferInOneValue
  /\ \E i \in 1..Len(sg.first) : Form(sg.first[i][2]) # Form(sg.second[i][2])

Reproducible ==
  (sg.first = sg.second /\ TimestampOf(SignedA) = TimestampOf(SignedB)) =>
    SignedA = SignedB /\ urlencode(SignedA) = urlencode(SignedB)

TimestampSigned ==
  (sg.first = sg.second /\ TimestampOf(SignedA) # TimestampOf(SignedB)) =>
    SignatureOf(SignedA) # SignatureOf(SignedB)

\* C16 as stated: with secret, parameters and timestamp fixed, signing twice
\* gives the same signature and the same encoded request; changing the value
\* of any one parameter, or the timestamp, changes the signature.
C16_AnyValueChangesSignature ==
  sg.stage = "two" =>
    /\ Reproducible
    /\ TimestampSigned
    /\ (DifferInOneValue /\ TimestampOf(SignedA) = TimestampOf(SignedB)) =>
          SignatureOf(SignedA) # SignatureOf(SignedB)

\* C16 amended: ... changing the value of one parameter to a value that is
\* sent as a different string (str(v) differs, or one of the two is None and
\* the parameter is left out), or the timestamp, changes the signature.
C16_SentValueChangesSignature ==
  sg.stage = "two" =>
    /\ Reproducible
    /\ TimestampSigned
    /\ (DifferInOneForm /\ TimestampOf(SignedA) = TimestampOf(SignedB)) =>
          SignatureOf(SignedA) # SignatureOf(SignedB)

C16_Witness ==
  /\ sg.stage = "two"
  /\ sg.first[1] = sg.second[1]
  /\ sg.first[2][2] = Num(5000) /\ sg.second[2][2] = Num(0)
  /\ TimestampOf(SignedA) = TimestampOf(SignedB)
  /\ SignatureOf(SignedA) # SignatureOf(SignedB)

\* ---------------------------------------------------------------------- C17
\* a line is taken up only when every earlier non-blank line has its response
\* on standard output and no HTTP call is open
TakenInTurn ==
  nRead' # nRead => (pc = "read" /\ nOut = nNonBlank /\ calls = <<>>)

\* a write is the response to the line in hand and brings the output level
\* with the non-blank lines taken
WrittenInTurn ==
  (written' # written /\ written' # <<>>) =>
    /\ Len(written') = 1
    /\ nOut' = nNonBlank'
    /\ written'[1].id = cur'.request.id

\* while the HTTP call of a line is open it is the only one and the line has
\* no response; a line that made a call has a response only after the answer
OneCallThenResponse ==
  /\ Len(calls) <= 1
  /\ pc = "http" => (Len(calls) = 1 /\ written = <<>> /\ answered = <<>>)
  /\ (calls # <<>> /\ written # <<>>) => answered # <<>>

\* C17: lines are handled strictly one after the other: the response to a
\* non-blank line is written and flushed before the next line is taken up, so
\* the output is in input order; at most one HTTP call is open at any time;
\* no response is emitted for a line before its HTTP call has returned or
\* failed.
C17_StrictlySequential ==
  /\ []OneCallThenResponse
  /\ [][TakenInTurn /\ WrittenInTurn]_vars

C17_Witness ==
  /\ pc = "next" /\ nRead = 2 /\ nNonBlank = 2 /\ nOut = 2
  /\ Len(calls) = 1 /\ answered # <<>>
  /\ Len(written) = 1 /\ written[1].id = Num(2)

\* ---------------------------------------------------------------------- C18
\* the endpoint of each method: HTTP method, paths, signed or not
Endpoint(method) ==
  CASE method = Str("get_account") ->
         [method |-> "GET", paths |-> {"/api/v3/account"}, signed |-> TRUE]
    [] method = Str("get_open_orders") ->
         [method |-> "GET", paths |-> {"/api/v3/openOrders"}, signed |-> TRUE]
    [] method = Str("get_trades") ->
         [method |-> "GET", paths |-> {"/api/v3/myTrades"}, signed |-> TRUE]
    [] method = Str("place_order") ->
         [method |-> "POST", paths |-> {"/api/v3/order", "/api/v3/order/test"},
          signed |-> TRUE]
    [] method = Str("get_candles") ->
         [method |-> "GET", paths |-> {"/api/v3/klines"}, signed |-> FALSE]
    [] OTHER ->
         [method |-> "", paths |-> {}, signed |-> FALSE]

\* the lines that must not reach the network
NoCallDue ==
  \/ cur.kind # "object"
  \/ Req.method \notin KnownMethods \/ Req.method = Str("ping")
  \/ (ObjectParams /\ (LacksTrades \/ LacksOrder \/ LacksCandles))
  \/ (ObjectParams /\ Req.method \in SignedMethods
        /\ (~KeyConfigured \/ ~SecretConfigured))

ToEndpoint(c) ==
  \E e \in {Endpoint(Req.method)} :
    /\ c.request.method = e.method
    /\ \E path \in e.paths :
         \E base \in {DefaultBaseUrl, "https://testnet.binance.vision"} :
           c.request.url = base \o path
    /\ ("signature" \in Keys(Sent(c))) = e.signed
    /\ ("X-MBX-APIKEY" \in Headers(c)) = e.signed

\* C18: a line causes at most one HTTP call, none after the answer to it
\* whatever the answer was, and none at all for ping, unknown methods, lines
\* that are not requests and requests lacking a parameter or a credential; a
\* call goes to the endpoint of the requested method, signed for the four
\* account methods and unsigned for get_candles.
C18_OneCallToTheEndpoint ==
  /\ Len(calls) <= 1
  /\ answered # <<>> => pc \in {"next", "crashed"}
  /\ NoCallDue => NoHttp
  /\ \A i \in 1..Len(calls) : ToEndpoint(calls[i])

C18_Witness ==
  /\ pc = "next" /\ Req.method = Str("get_trades")
  /\ Len(calls) = 1 /\ answered # <<>> /\ answered[1].kind = "url_error"
  /\ calls[1].request.method = "GET"
  /\ calls[1].request.url = "https://api.binance.com/api/v3/myTrades"
  /\ "signature" \in Keys(Sent(calls[1]))

\* ---------------------------------------------------------------------- C19
Answer == answered[1]
HttpErrorMessages ==
  IF Answer.json
    THEN {Dict([status |-> Num(Answer.status), payload |-> [t |-> "json", v |-> Answer.body]])}
    ELSE {Dict([status |-> Num(Answer.status), payload |-> Str(Answer.body)]),
          Dict([status |-> Num(Answer.status), payload |-> Dict([msg |-> Str(Answer.body)])])}
NetworkErrorMessage ==
  Dict([status |-> Str("network_error"), payload |-> Str(Answer.body)])

\* C19: a non-2xx answer gives the error envelope with the request's id, code
\* -32000 and a message holding the HTTP status and the body, parsed or raw;
\* a failure of the connection (refused, timed out, lost) gives the error
\* envelope with code -32000 and a message marked network_error holding the
\* transport's message; either way the server goes on to the next line.
C19_RemoteFailuresBecomeEnvelopes ==
  (answered # <<>> /\ Answer.kind # "ok") =>
    /\ pc = "next"
    /\ Len(written) = 1
    /\ written[1].id = Req.id
    /\ written[1].error.code = DispatchErrorCode
    /\ written[1].error.message \in
         (IF Answer.kind = "http_error" THEN HttpErrorMessages ELSE {NetworkErrorMessage})

\* ---------------------------------------------------------------------- C20
SecretStrings == {"PSECRET", "ENVSECRET"}

\* no string inside a JSON value is a secret
RECURSIVE SecretFree(_)
SecretFree(x) ==
  CASE x.t = "str" -> x.v \notin SecretStrings
    [] x.t = "dict" ->
         \A k \in DOMAIN x.v : k = "pong" \/ SecretFree(x.v[k])
    [] x.t \in {"json", "bytes"} -> x.v \notin SecretStrings
    [] OTHER -> TRUE

SecretFreeMessage(m) ==
  /\ SecretFree(m.id)
  /\ "result" \in DOMAIN m => SecretFree(m.result)
  /\ "error" \in DOMAIN m => SecretFree(m.error.message)

\* the secret is in a request only as the key of the digest
SecretFreeRequest(c) ==
  /\ \E path \in UNION {Endpoint(m).paths : m \in KnownMethods} :
       \E base \in {DefaultBaseUrl, "https://testnet.binance.vision"} :
         c.request.url = base \o path
  /\ \A h \in c.request.headers : h[1] \notin SecretStrings /\ h[2] \notin SecretStrings
  /\ \A j \in 1..Len(Sent(c)) :
       /\ Sent(c)[j][1] \notin SecretStrings \cup {"apiSecret"}
       /\ IF Sent(c)[j][1] = "signature"
            THEN /\ Sent(c)[j][2].v.key = ExpectedSecret.v
                 /\ \A n \in 1..Len(Sent(c)[j][2].v.msg) :
                      Sent(c)[j][2].v.msg[n][2].v \notin SecretStrings
            ELSE Sent(c)[j][2].v \notin SecretStrings

\* C20: the API secret, given in params or in the environment, is used as
\* the HMAC key and nowhere else: it is in no URL, header, query string or
\* body that goes out and in no line written, error envelopes included; of
\* an outgoing request only the signature value depends on it.
C20_SecretOnlyKeysTheDigest ==
  /\ \A i \in 1..Len(calls) : SecretFreeRequest(calls[i])
  /\ \A i \in 1..Len(written) : SecretFreeMessage(written[i])

C20_Witness ==
  /\ pc = "next" /\ Req.method = Str("place_order") /\ Req.params.t = "dict"
  /\ Param("apiSecret") = Str("PSECRET") /\ environ.BINANCE_API_SECRET = Str("ENVSECRET")
  /\ Len(calls) = 1 /\ Signature(calls[1]).v.key = "PSECRET"
  /\ answered # <<>> /\ answered[1].kind = "http_error"
  /\ Len(written) = 1 /\ "error" \in DOMAIN written[1]

====
